---- MODULE Spec2Model ----
(***************************************************************************)
(* Model of simple-pixel-sprite-generator.py: the pixelation transform     *)
(* (pixelate_image), the per-file worker (process_single_image), file      *)
(* discovery (get_image_files), the atlas packer (generate_spritemap) and  *)
(* the batch driver (main).                                                *)
(*                                                                         *)
(* An image is its size plus the identity of the file its pixels derive    *)
(* from (src).  A file name is a stem (a number standing for the text      *)
(* before the extension) and an extension.  Calls into the imaging library *)
(* and the operating system that can raise (Image.open, autocontrast,      *)
(* save, makedirs) are nondeterministic choices between their outcomes.    *)
(***************************************************************************)
EXTENDS Integers, Sequences, FiniteSets, TLC

VARIABLES
  args,          \* parsed command line: pixel_size, spritemap, auto_adjust
  input,         \* what --input names: kind ("file", "dir", "missing") and entries
  pc,            \* position of main
  image_files,   \* main: result of get_image_files
  i,             \* main: 1-based position of the per-file loop
  output_files,  \* main: paths collected from process_single_image
  log,           \* one printed outcome per process_single_image call
  disk,          \* output directory: path -> saved image
  exit_code,     \* process exit status, -1 while running
  sm,            \* what generate_spritemap did
  pix            \* a single pixelate_image call: its input image and result

vars == <<args, input, pc, image_files, i, output_files, log, disk, exit_code, sm, pix>>

----------------------------------------------------------------------------
(* Bounds *)

MaxFiles == 3      \* longest directory listing
MaxImages == 3     \* longest sequence of arbitrary images handed to the packer
MaxDim == 2        \* largest side of those images
MaxCount == 10     \* longest sequence of near-uniform images handed to the packer
MaxSide == 6       \* largest side of an image handed to pixelate_image
MaxPixel == 7      \* largest pixel_size handed to pixelate_image

Stems == {1, 2}
Exts == {".png", ".TGA", ".txt"}
PixelSizes == {-1, 0, 1, 2}
DecodableSizes == {<<1, 1>>, <<3, 2>>}
ExampleSizes == <<(<<10, 10>>), (<<8, 8>>), (<<10, 6>>), (<<8, 10>>)>>
ExampleSide == {100}
ExamplePixel == {16}

----------------------------------------------------------------------------
(* Values *)

NoName == [stem |-> 0, ext |-> ""]
NoPath == [stem |-> 0, suffix |-> "", ext |-> ""]
NoImage == [width |-> 0, height |-> 0, src |-> NoName]

Img(w, h, name) == [width |-> w, height |-> h, src |-> name]

Max(a, b) == IF a >= b THEN a ELSE b

RECURSIVE MaxOf(_)
MaxOf(s) == IF Len(s) = 1 THEN s[1] ELSE Max(s[1], MaxOf(Tail(s)))

\* Python's a // b for b # 0: the floor of the quotient.
FloorDiv(a, b) ==
  IF b > 0 THEN a \div b
  ELSE IF a >= 0 THEN -((a + (-b) - 1) \div (-b))
  ELSE (-a) \div (-b)

\* math.ceil(math.sqrt(n)) for n >= 1: the root rounded down, then up unless exact.
CeilSqrt(n) ==
  LET r == CHOOSE s \in 0..n : s * s <= n /\ (s + 1) * (s + 1) > n
  IN IF r * r = n THEN r ELSE r + 1

\* math.ceil(n / d) for n >= 0, d >= 1: the true quotient rounded up.
CeilDiv(n, d) == IF n % d = 0 THEN n \div d ELSE (n \div d) + 1

\* str.lower() on an extension.
Lower(ext) == IF ext = ".TGA" THEN ".tga" ELSE ext

SUPPORTED_EXTENSIONS == {".png", ".tga"}

----------------------------------------------------------------------------
(* pixelate_image *)

resize(image, size) == [image EXCEPT !.width = size[1], !.height = size[2]]

Raised(e) == [ok |-> FALSE, error |-> e, image |-> NoImage, small |-> <<0, 0>>]

\* A faulty variant: the reduced image is returned without the second resize.
pixelate_image_no_upsample(image, pixel_size, auto_adjust, ac_ok) ==
  IF pixel_size = 0 THEN Raised("ZeroDivisionError")
  ELSE
    LET new_width == Max(1, FloorDiv(image.width, pixel_size))
        new_height == Max(1, FloorDiv(image.height, pixel_size))
        small_image == resize(image, <<new_width, new_height>>)
    IN IF auto_adjust /\ ~ac_ok THEN Raised("autocontrast_error")
       ELSE [ok |-> TRUE, error |-> "", image |-> small_image,
             small |-> <<small_image.width, small_image.height>>]

\* ac_ok: whether ImageOps.autocontrast returns (it raises for image modes it
\* does not support).
pixelate_image(image, pixel_size, auto_adjust, ac_ok) ==
  IF pixel_size = 0 THEN Raised("ZeroDivisionError")
  ELSE
    LET new_width == Max(1, FloorDiv(image.width, pixel_size))
        new_height == Max(1, FloorDiv(image.height, pixel_size))
        small_image == resize(image, <<new_width, new_height>>)
        pixelated_image == resize(small_image, <<image.width, image.height>>)
    IN IF auto_adjust /\ ~ac_ok THEN Raised("autocontrast_error")
       ELSE [ok |-> TRUE, error |-> "", image |-> pixelated_image,
             small |-> <<small_image.width, small_image.height>>]

----------------------------------------------------------------------------
(* process_single_image *)

\* os.path.join(output_dir, f"{name}_pixelated.png"), name the stem of the file.
OutputPath(filepath) == [stem |-> filepath.stem, suffix |-> "_pixelated", ext |-> ".png"]

Write(d, path, image) ==
  [p \in DOMAIN d \cup {path} |-> IF p = path THEN image ELSE d[p]]

Failed(d, e) == [out_file |-> NoPath, disk |-> d, msg |-> e]

\* opened: what Image.open gave (NoImage: it raised); save_ok: whether save returned.
process_single_image(filepath, d, pixel_size, auto_adjust, opened, ac_ok, save_ok) ==
  IF opened = NoImage THEN Failed(d, "decode_error")
  ELSE
    LET result == pixelate_image(opened, pixel_size, auto_adjust, ac_ok)
        output_path == OutputPath(filepath)
    IN IF ~result.ok THEN Failed(d, result.error)
       ELSE IF ~save_ok THEN Failed(d, "save_error")
       ELSE [out_file |-> output_path, disk |-> Write(d, output_path, result.image),
             msg |-> "saved"]

----------------------------------------------------------------------------
(* get_image_files *)

Supported(entry) == Lower(entry.ext) \in SUPPORTED_EXTENSIONS

get_image_files(inp) ==
  IF inp.kind = "file" THEN
    IF Supported(inp.entries[1]) THEN <<inp.entries[1]>> ELSE <<>>
  ELSE IF inp.kind = "dir" THEN
    SelectSeq(inp.entries, LAMBDA entry : entry.isfile /\ Supported(entry))
  ELSE <<>>

----------------------------------------------------------------------------
(* generate_spritemap *)

\* errors: the positions of image_paths whose "Error opening" line was printed.
NotRun == [status |-> "not_run", images |-> <<>>, sources |-> <<>>, errors |-> <<>>,
           cell_width |-> 0, cell_height |-> 0, cols |-> 0, rows |-> 0,
           width |-> 0, height |-> 0, placements |-> <<>>]

Skipped(notice) == [NotRun EXCEPT !.status = notice]

\* A faulty variant: the image is pasted at the left edge of its cell.
PasteXLeft(idx, img, cols, cell_width) == (idx % cols) * cell_width

\* The paste position of the image at 0-based index idx.
PasteX(idx, img, cols, cell_width) ==
  (idx % cols) * cell_width + FloorDiv(cell_width - img.width, 2)

PasteY(idx, img, cols, cell_height) ==
  (idx \div cols) * cell_height + FloorDiv(cell_height - img.height, 2)

GridCols(count) == CeilSqrt(count)

\* A faulty variant: one more than the quotient rounded down.
GridRowsPlusOne(count, cols) == (count \div cols) + 1

GridRows(count, cols) == CeilDiv(count, cols)

\* A faulty variant: the cell takes the side of the first image.
CellSideFirst(sides) == sides[1]

\* Lines 120-121: the cell is as wide (high) as the widest (highest) image.
CellSide(sides) == MaxOf(sides)

\* Lines 120-136: the grid, the canvas and the paste of every image.
\* max() of an empty list and a division by zero columns raise.
Layout(images, sources, errors) ==
  IF images = <<>> THEN [NotRun EXCEPT !.status = "raised", !.errors = errors]
  ELSE
    LET widths == [k \in 1..Len(images) |-> images[k].width]
        heights == [k \in 1..Len(images) |-> images[k].height]
        cell_width == CellSide(widths)
        cell_height == CellSide(heights)
        count == Len(images)
        cols == GridCols(count)
        rows == GridRows(count, cols)
    IN [status |-> "saved", images |-> images, sources |-> sources, errors |-> errors,
        cell_width |-> cell_width, cell_height |-> cell_height,
        cols |-> cols, rows |-> rows,
        width |-> cols * cell_width, height |-> rows * cell_height,
        placements |-> [k \in 1..count |->
           [x |-> PasteX(k - 1, images[k], cols, cell_width),
            y |-> PasteY(k - 1, images[k], cols, cell_height),
            image |-> images[k]]]]

\* A faulty variant: the check for an empty list of opened images is missing.
HasValidImagesAlways(images) == TRUE

\* Whether generate_spritemap goes on to the grid with these opened images.
HasValidImages(images) == images # <<>>

\* opened[j]: what Image.open gave for image_paths[j] (NoImage: it raised).
generate_spritemap(image_paths, opened) ==
  IF image_paths = <<>> THEN Skipped("no_images")
  ELSE
    LET sources == SelectSeq([j \in 1..Len(image_paths) |-> j],
                             LAMBDA j : opened[j] # NoImage)
        errors == SelectSeq([j \in 1..Len(image_paths) |-> j],
                            LAMBDA j : opened[j] = NoImage)
        images == [k \in 1..Len(sources) |-> opened[sources[k]]]
    IN IF ~HasValidImages(images)
         THEN [Skipped("no_valid_images") EXCEPT !.errors = errors]
         ELSE Layout(images, sources, errors)

----------------------------------------------------------------------------
(* main *)

Idle == [image |-> NoImage, result |-> Raised("not_called")]

File(s, e) == [stem |-> s, ext |-> e, isfile |-> TRUE]

\* What a directory may hold: files a and b under each extension, and a
\* subdirectory whose name ends in .png.
DirEntries ==
  {File(s, e) : s \in Stems, e \in Exts} \cup {[stem |-> 3, ext |-> ".png", isfile |-> FALSE]}

Listings ==
  {l \in UNION {[1..n -> DirEntries] : n \in 0..MaxFiles} :
     \A a, b \in 1..Len(l) : a # b => l[a] # l[b]}

Inputs ==
  {[kind |-> "dir", entries |-> l] : l \in Listings}
    \cup {[kind |-> "file", entries |-> <<e>>] : e \in {d \in DirEntries : d.isfile}}
    \cup {[kind |-> "missing", entries |-> <<>>]}

EmptyDisk == [p \in {} |-> NoImage]

Init ==
  /\ args \in [pixel_size : PixelSizes, spritemap : BOOLEAN, auto_adjust : BOOLEAN]
  /\ input \in Inputs
  /\ pc = "start"
  /\ image_files = <<>>
  /\ i = 0
  /\ output_files = <<>>
  /\ log = <<>>
  /\ disk = EmptyDisk
  /\ exit_code = -1
  /\ sm = NotRun
  /\ pix = Idle

\* Lines 164-169: the output directory exists or is created, or main exits 1.
MakeOutputDir ==
  /\ pc = "start"
  /\ \E ok \in BOOLEAN :
       IF ok THEN pc' = "discover" /\ exit_code' = exit_code
       ELSE pc' = "exit" /\ exit_code' = 1
  /\ UNCHANGED <<args, input, image_files, i, output_files, log, disk, sm, pix>>

\* Lines 171-176: discovery, and exit 1 when nothing was found.
Discover ==
  /\ pc = "discover"
  /\ image_files' = get_image_files(input)
  /\ IF image_files' = <<>>
       THEN pc' = "exit" /\ exit_code' = 1 /\ i' = i
       ELSE pc' = "process" /\ exit_code' = exit_code /\ i' = 1
  /\ UNCHANGED <<args, input, output_files, log, disk, sm, pix>>

\* A faulty variant: whatever process_single_image returned is collected.
CollectAlways(files, out_file) == Append(files, out_file)

\* Lines 179-180: a path is collected, None is not.
Collect(files, out_file) == IF out_file # NoPath THEN Append(files, out_file) ELSE files

\* Lines 177-180: one iteration of the per-file loop.
ProcessFile ==
  /\ pc = "process"
  /\ i <= Len(image_files)
  /\ \E opened \in {NoImage} \cup {Img(s[1], s[2], [stem |-> image_files[i].stem,
                                                    ext |-> image_files[i].ext]) :
                                     s \in DecodableSizes},
        ac_ok \in BOOLEAN, save_ok \in BOOLEAN :
       LET r == process_single_image(image_files[i], disk, args.pixel_size,
                                     args.auto_adjust, opened, ac_ok, save_ok)
       IN /\ output_files' = Collect(output_files, r.out_file)
          /\ disk' = r.disk
          /\ log' = Append(log, [file |-> image_files[i], msg |-> r.msg])
  /\ i' = i + 1
  /\ pc' = IF i = Len(image_files) THEN "spritemap" ELSE "process"
  /\ UNCHANGED <<args, input, image_files, exit_code, sm, pix>>

\* Lines 182-183 and the end of main.  An exception out of generate_spritemap
\* would end the process with status 1.
SpritemapStep ==
  /\ pc = "spritemap"
  /\ IF args.spritemap
       THEN \E fails \in SUBSET (1..Len(output_files)) :
              sm' = generate_spritemap(output_files,
                      [j \in 1..Len(output_files) |->
                         IF j \in fails \/ output_files[j] \notin DOMAIN disk
                           THEN NoImage ELSE disk[output_files[j]]])
       ELSE sm' = sm
  /\ pc' = "done"
  /\ exit_code' = IF sm'.status = "raised" THEN 1 ELSE 0
  /\ UNCHANGED <<args, input, image_files, i, output_files, log, disk, pix>>

Next == MakeOutputDir \/ Discover \/ ProcessFile \/ SpritemapStep

Spec == Init /\ [][Next]_vars

----------------------------------------------------------------------------
(* generate_spritemap alone, on arbitrary saved images *)

PackPath(j) == [stem |-> j, suffix |-> "_pixelated", ext |-> ".png"]

Sizes == {<<w, h>> : w \in 1..MaxDim, h \in 1..MaxDim}

Missing == <<0, 0>>

\* Sequences of sizes; Missing stands for a path that cannot be opened.
PackInputs ==
  UNION {[1..n -> Sizes \cup {Missing}] : n \in 0..MaxImages}
    \cup UNION {{[j \in 1..n |-> IF j = k THEN d1 ELSE d2] :
                   k \in 1..n, d1 \in Sizes \cup {Missing}, d2 \in Sizes} : n \in 1..MaxCount}
    \cup {ExampleSizes}

PackInit ==
  /\ \E sizes \in PackInputs :
       /\ output_files = [j \in 1..Len(sizes) |-> PackPath(j)]
       /\ disk = [p \in {PackPath(j) : j \in {k \in 1..Len(sizes) : sizes[k] # Missing}} |->
                    Img(sizes[p.stem][1], sizes[p.stem][2], [stem |-> p.stem, ext |-> ".png"])]
  /\ args = [pixel_size |-> 16, spritemap |-> TRUE, auto_adjust |-> FALSE]
  /\ input = [kind |-> "missing", entries |-> <<>>]
  /\ pc = "pack"
  /\ image_files = <<>>
  /\ i = 0
  /\ log = <<>>
  /\ exit_code = -1
  /\ sm = NotRun
  /\ pix = Idle

PackStep ==
  /\ pc = "pack"
  /\ sm' = generate_spritemap(output_files,
             [j \in 1..Len(output_files) |->
                IF output_files[j] \in DOMAIN disk THEN disk[output_files[j]] ELSE NoImage])
  /\ pc' = "done"
  /\ UNCHANGED <<args, input, image_files, i, output_files, log, disk, exit_code, pix>>

SpecPack == PackInit /\ [][PackStep]_vars

----------------------------------------------------------------------------
(* pixelate_image alone, on arbitrary images and pixel sizes *)

PixelateInit ==
  /\ args \in [pixel_size : ((-MaxPixel)..MaxPixel) \cup ExamplePixel,
               spritemap : {FALSE}, auto_adjust : BOOLEAN]
  /\ \E w, h \in (1..MaxSide) \cup ExampleSide :
       pix = [image |-> Img(w, h, [stem |-> 1, ext |-> ".png"]),
              result |-> Raised("not_called")]
  /\ input = [kind |-> "missing", entries |-> <<>>]
  /\ pc = "pixelate"
  /\ image_files = <<>>
  /\ i = 0
  /\ output_files = <<>>
  /\ log = <<>>
  /\ disk = EmptyDisk
  /\ exit_code = -1
  /\ sm = NotRun

PixelateStep ==
  /\ pc = "pixelate"
  /\ \E ac_ok \in BOOLEAN :
       pix' = [pix EXCEPT !.result =
                 pixelate_image(pix.image, args.pixel_size, args.auto_adjust, ac_ok)]
  /\ pc' = "done"
  /\ UNCHANGED <<args, input, image_files, i, output_files, log, disk, exit_code, sm>>

SpecPixelate == PixelateInit /\ [][PixelateStep]_vars

----------------------------------------------------------------------------
(* Properties of generate_spritemap, under SpecPack *)

\* The paths of output_files that can be opened.
Openable == {j \in 1..Len(output_files) : output_files[j] \in DOMAIN disk}

\* The cell of the k-th placed image (k from 1): its column and row.
CellCol(k) == (k - 1) % sm.cols

CellRow(k) == (k - 1) \div sm.cols

\* C1: for N >= 1 opened images the grid has columns = ceil(sqrt(N)) and
\* rows = ceil(N / columns); rows is the least integer with columns*rows >= N,
\* rows <= columns, and the canvas is columns*cell_width by rows*cell_height
\* with the cell the maximum width and height over the opened images.
C1_GridShape ==
  /\ (pc = "done" /\ Openable # {}) => sm.status = "saved"
  /\ sm.status = "saved" =>
       LET N == Len(sm.images) IN
         /\ N = Cardinality(Openable) /\ N >= 1
         /\ sm.cols >= 1 /\ sm.cols * sm.cols >= N /\ (sm.cols - 1) * (sm.cols - 1) < N
         /\ sm.rows >= 1 /\ sm.cols * sm.rows >= N /\ (sm.rows - 1) * sm.cols < N
         /\ sm.rows <= sm.cols
         /\ \A k \in 1..N : sm.images[k].width <= sm.cell_width
         /\ \E k \in 1..N : sm.images[k].width = sm.cell_width
         /\ \A k \in 1..N : sm.images[k].height <= sm.cell_height
         /\ \E k \in 1..N : sm.images[k].height = sm.cell_height
         /\ sm.width = sm.cols * sm.cell_width
         /\ sm.height = sm.rows * sm.cell_height

\* Ten images opened, one wider than the others: a grid of 4 columns and 3 rows.
C1_Witness ==
  /\ sm.status = "saved"
  /\ Len(sm.images) = 10
  /\ sm.cols = 4 /\ sm.rows = 3
  /\ \E a, b \in 1..10 : sm.images[a].width < sm.images[b].width

\* C2: every image is pasted inside its own cell, hence inside the canvas,
\* and the rectangles of two different images do not overlap.
C2_InsideCell ==
  sm.status = "saved" =>
    /\ \A k \in 1..Len(sm.placements) :
         LET pl == sm.placements[k] IN
           /\ CellCol(k) * sm.cell_width <= pl.x
           /\ pl.x + pl.image.width <= (CellCol(k) + 1) * sm.cell_width
           /\ CellRow(k) * sm.cell_height <= pl.y
           /\ pl.y + pl.image.height <= (CellRow(k) + 1) * sm.cell_height
           /\ 0 <= pl.x /\ pl.x + pl.image.width <= sm.width
           /\ 0 <= pl.y /\ pl.y + pl.image.height <= sm.height
    /\ \A k, m \in 1..Len(sm.placements) :
         k # m =>
           LET a == sm.placements[k]
               b == sm.placements[m]
           IN \/ a.x + a.image.width <= b.x
              \/ b.x + b.image.width <= a.x
              \/ a.y + a.image.height <= b.y
              \/ b.y + b.image.height <= a.y

\* Images of differing widths and heights packed on more than one row.
C2_Witness ==
  /\ sm.status = "saved"
  /\ sm.rows >= 2
  /\ \E a, b \in 1..Len(sm.images) :
       /\ sm.images[a].width < sm.images[b].width
       /\ sm.images[a].height > sm.images[b].height

SizesOf(images) == [k \in 1..Len(images) |-> <<images[k].width, images[k].height>>]

\* C8: every image is centered in its cell: the left (top) margin is at most
\* the right (bottom) margin and they differ by at most 1; an image as large
\* as the cell has offset 0; a single image gives a 1x1 grid whose canvas is
\* the image; for sizes 10x10, 8x8, 10x6, 8x10 the 8x8 image lands at (11, 1)
\* on a 20x20 canvas.
C8_Centered ==
  sm.status = "saved" =>
    /\ \A k \in 1..Len(sm.placements) :
         LET pl == sm.placements[k]
             left == pl.x - CellCol(k) * sm.cell_width
             right == (CellCol(k) + 1) * sm.cell_width - (pl.x + pl.image.width)
             top == pl.y - CellRow(k) * sm.cell_height
             bottom == (CellRow(k) + 1) * sm.cell_height - (pl.y + pl.image.height)
         IN /\ pl.image = sm.images[k]
            /\ 0 <= left /\ left <= right /\ right <= left + 1
            /\ 0 <= top /\ top <= bottom /\ bottom <= top + 1
            /\ pl.image.width = sm.cell_width => left = 0
            /\ pl.image.height = sm.cell_height => top = 0
    /\ Len(sm.images) = 1 =>
         /\ sm.cols = 1 /\ sm.rows = 1
         /\ sm.width = sm.images[1].width /\ sm.height = sm.images[1].height
         /\ sm.placements[1].x = 0 /\ sm.placements[1].y = 0
    /\ SizesOf(sm.images) = ExampleSizes =>
         /\ sm.cell_width = 10 /\ sm.cell_height = 10
         /\ sm.cols = 2 /\ sm.rows = 2
         /\ sm.width = 20 /\ sm.height = 20
         /\ sm.placements[2].x = 11 /\ sm.placements[2].y = 1

\* The four images of the example, packed.
C8_Witness ==
  /\ sm.status = "saved"
  /\ SizesOf(sm.images) = ExampleSizes
  /\ sm.placements[2].x = 11 /\ sm.placements[2].y = 1
  /\ sm.placements[3].y = 12

----------------------------------------------------------------------------
(* Properties of pixelate_image, under SpecPixelate *)

\* n is max(1, floor(side / p)) for side >= 1, p >= 1.
IsReduced(n, side, p) ==
  \/ side < p /\ n = 1
  \/ side >= p /\ n * p <= side /\ side < (n + 1) * p

----------------------------------------------------------------------------
(* Properties of the batch, under Spec *)

\* The log entries of the files whose processing succeeded, in order.
Succeeded == SelectSeq(log, LAMBDA e : e.msg = "saved")

NameOf(file) == [stem |-> file.stem, ext |-> file.ext]

\* C4: a failure while processing one file never aborts the batch; every
\* discovered file is attempted exactly once whatever failed before, and
\* the list handed to generate_spritemap holds exactly the output paths of
\* the files whose processing succeeded, with no entry for a failed file.
C4_ContinueOnError ==
  /\ pc = "exit" => log = <<>>
  /\ pc = "process" => (Len(log) = i - 1 /\ i <= Len(image_files) /\ exit_code = -1)
  /\ pc \in {"spritemap", "done"} => Len(log) = Len(image_files)
  /\ Len(log) <= Len(image_files)
  /\ \A k \in 1..Len(log) : log[k].file = image_files[k]
  /\ output_files = [k \in 1..Len(Succeeded) |-> OutputPath(Succeeded[k].file)]
  /\ \A k \in 1..Len(output_files) : output_files[k] # NoPath

\* A decode failure, then a pixelation failure, then a file that succeeds.
C4_Witness ==
  /\ pc = "done"
  /\ Len(log) = 3
  /\ log[1].msg = "decode_error"
  /\ log[2].msg = "autocontrast_error"
  /\ log[3].msg = "saved"
  /\ output_files = <<OutputPath(log[3].file)>>

\* C9: a spritemap is written only if the flag is set and at least one
\* processed image can be opened; when the list of output paths is empty,
\* or every path in it fails to open, generate_spritemap prints a notice,
\* writes nothing, computes no grid and raises no error.
C9_EmptyIsNoOp ==
  /\ sm.status = "saved" => (args.spritemap /\ Len(sm.images) >= 1)
  /\ ~args.spritemap => sm = NotRun
  /\ sm.status # "raised"
  /\ (pc = "done" /\ args.spritemap /\ output_files = <<>>) =>
       (sm = Skipped("no_images") /\ exit_code = 0)
  /\ (pc = "done" /\ args.spritemap /\ output_files # <<>>
        /\ Len(sm.errors) = Len(output_files)) =>
       /\ sm.status = "no_valid_images"
       /\ sm.cols = 0 /\ sm.rows = 0 /\ sm.width = 0 /\ sm.height = 0
       /\ sm.placements = <<>>
       /\ exit_code = 0

\* Two files were processed and saved, and neither output could be opened.
C9_Witness ==
  /\ pc = "done"
  /\ args.spritemap
  /\ Len(output_files) = 2
  /\ Len(sm.errors) = 2
  /\ sm.status = "no_valid_images"

\* C5: if zero files succeed, the batch ends with a non-zero exit status,
\* both when nothing was discovered and when every discovered file failed.
C5_ZeroSuccessExitsNonZero ==
  (pc \in {"done", "exit"} /\ Succeeded = <<>>) => exit_code # 0

\* C6: for every pixel_size < 1 no pixelated image is produced and no
\* output file is saved.
C6_InvalidPixelSizeRejected ==
  args.pixel_size < 1 => (Succeeded = <<>> /\ output_files = <<>> /\ DOMAIN disk = {})

\* C10: distinct discovered files are saved to distinct output paths: the
\* list handed to generate_spritemap has no duplicates and every saved
\* file's output path still holds that file's own pixelated image.
C10_DistinctOutputs ==
  /\ \A a, b \in 1..Len(output_files) : a # b => output_files[a] # output_files[b]
  /\ \A k \in 1..Len(Succeeded) :
       disk[OutputPath(Succeeded[k].file)].src = NameOf(Succeeded[k].file)

\* C3: the k-th image placed in the spritemap occupies cell k in row-major
\* order and comes from the k-th file, in listing order, among the files
\* that were processed and opened successfully.
C3_PlacementFollowsInput ==
  sm.status = "saved" =>
    /\ \A k \in 1..Len(sm.sources) : \A m \in 1..Len(sm.sources) :
         k < m => sm.sources[k] < sm.sources[m]
    /\ \A k \in 1..Len(sm.placements) :
         /\ sm.placements[k].image.src = NameOf(Succeeded[sm.sources[k]].file)
         /\ sm.placements[k].x \div sm.cell_width = CellCol(k)
         /\ sm.placements[k].y \div sm.cell_height = CellRow(k)

\* With no two collected output paths equal, the placement order of C3 holds.
C3_HoldsWhenOutputsDistinct ==
  (\A a, b \in 1..Len(output_files) : a # b => output_files[a] # output_files[b])
    => C3_PlacementFollowsInput

====
